---- MODULE Spec2Model ----
(***************************************************************************)
(* The conversational turn pipeline of the Mother bot:                     *)
(*   ElizaService.processMessage / splitMessage  (eliza.service.ts)        *)
(*   GaianetService.generateText / cleanResponse (gaianet.service.ts and   *)
(*                                                boardroom.service.ts)    *)
(*   DiscordService.setupEventHandlers           (boardroom.service.ts)    *)
(* Strings are sequences of one-character strings.                         *)
(***************************************************************************)
EXTENDS Integers, Sequences, FiniteSets, TLC

(***************************************************************************)
(* Bounds of the model.                                                    *)
(***************************************************************************)
\* longest text handed to splitMessage in the chunker specification
MaxTextLen == 6
\* largest maxLength tried in the chunker specification
MaxChunkLen == 3
\* the chunk limit used by the turns of the pipeline specification; it stands
\* for MAX_MESSAGE_LENGTH (4096, eliza.service.ts:32), scaled to the texts of
\* the model
ChunkLimit == 3
\* number of turn slots
NumTurns == 2

(***************************************************************************)
(* Characters and strings.                                                 *)
(***************************************************************************)
SP == " "
NL == "\n"
\* the characters String.prototype.trim removes, among those of the model
Whitespace == {SP, NL}
\* the characters of the texts of the chunker specification
Alphabet == {"a", "b", SP, NL}

Texts(n) == UNION {[1..k -> Alphabet] : k \in 0..n}

RECURSIVE DropLeadingWs(_)
DropLeadingWs(s) ==
  IF s # <<>> /\ Head(s) \in Whitespace THEN DropLeadingWs(Tail(s)) ELSE s

RECURSIVE DropTrailingWs(_)
DropTrailingWs(s) ==
  IF s # <<>> /\ s[Len(s)] \in Whitespace
  THEN DropTrailingWs(SubSeq(s, 1, Len(s) - 1))
  ELSE s

\* String.prototype.trim
Trim(s) == DropTrailingWs(DropLeadingWs(s))

\* String.prototype.split(sep) for a one-character separator: "" gives [""],
\* n separators give n + 1 pieces, empty pieces kept
RECURSIVE SplitFrom(_, _, _, _)
SplitFrom(s, sep, i, cur) ==
  IF i > Len(s) THEN <<cur>>
  ELSE IF s[i] = sep THEN <<cur>> \o SplitFrom(s, sep, i + 1, <<>>)
  ELSE SplitFrom(s, sep, i + 1, Append(cur, s[i]))

Split(s, sep) == SplitFrom(s, sep, 1, <<>>)

\* Array.prototype.join(sep) for a one-character separator
RECURSIVE Join(_, _)
Join(parts, sep) ==
  IF parts = <<>> THEN <<>>
  ELSE IF Len(parts) = 1 THEN parts[1]
  ELSE parts[1] \o <<sep>> \o Join(Tail(parts), sep)

(***************************************************************************)
(* ElizaService.splitMessage, with MAX_MESSAGE_LENGTH as a parameter.      *)
(***************************************************************************)
\* the loop with the length test forgetting the separating space
RECURSIVE SplitLoopNoSpace(_, _, _, _, _)
SplitLoopNoSpace(words, i, currentChunk, chunks, maxLength) ==
  IF i > Len(words)
  THEN IF currentChunk # <<>> THEN Append(chunks, Trim(currentChunk)) ELSE chunks
  ELSE IF Len(currentChunk) + Len(words[i]) > maxLength
       THEN SplitLoopNoSpace(words, i + 1, words[i],
                             Append(chunks, Trim(currentChunk)), maxLength)
       ELSE SplitLoopNoSpace(words, i + 1,
                             currentChunk
                               \o (IF currentChunk # <<>> THEN <<SP>> ELSE <<>>)
                               \o words[i],
                             chunks, maxLength)

\* the loop losing the word that did not fit
RECURSIVE SplitLoopDropWord(_, _, _, _, _)
SplitLoopDropWord(words, i, currentChunk, chunks, maxLength) ==
  IF i > Len(words)
  THEN IF currentChunk # <<>> THEN Append(chunks, Trim(currentChunk)) ELSE chunks
  ELSE IF Len(currentChunk) + 1 + Len(words[i]) > maxLength
       THEN SplitLoopDropWord(words, i + 1, <<>>,
                              Append(chunks, Trim(currentChunk)), maxLength)
       ELSE SplitLoopDropWord(words, i + 1,
                              currentChunk
                                \o (IF currentChunk # <<>> THEN <<SP>> ELSE <<>>)
                                \o words[i],
                              chunks, maxLength)

\* the for loop over the words: the test is made on currentChunk + " " + word
\* also when currentChunk is empty
RECURSIVE SplitLoop(_, _, _, _, _)
SplitLoop(words, i, currentChunk, chunks, maxLength) ==
  IF i > Len(words)
  THEN IF currentChunk # <<>> THEN Append(chunks, Trim(currentChunk)) ELSE chunks
  ELSE IF Len(currentChunk) + 1 + Len(words[i]) > maxLength
       THEN SplitLoop(words, i + 1, words[i],
                      Append(chunks, Trim(currentChunk)), maxLength)
       ELSE SplitLoop(words, i + 1,
                      currentChunk
                        \o (IF currentChunk # <<>> THEN <<SP>> ELSE <<>>)
                        \o words[i],
                      chunks, maxLength)

\* the early return of splitMessage
ShortText(text, maxLength) == Len(text) <= maxLength

\* splitMessage trimming the text it returns whole
splitMessageTrimmed(text, maxLength) ==
  IF ShortText(text, maxLength) THEN <<Trim(text)>>
  ELSE SplitLoop(Split(text, SP), 1, <<>>, <<>>, maxLength)

splitMessage(text, maxLength) ==
  IF ShortText(text, maxLength) THEN <<text>>
  ELSE SplitLoop(Split(text, SP), 1, <<>>, <<>>, maxLength)

(***************************************************************************)
(* GaianetService.cleanResponse.                                           *)
(***************************************************************************)
KeepInCharacter ==
  <<"P", "l", "e", "a", "s", "e", " ", "k", "e", "e", "p", " ", "r", "e", "s",
    "p", "o", "n", "s", "e", "s", " ", "i", "n", " ", "c", "h", "a", "r", "a",
    "c", "t", "e", "r">>
FeelFreeTo == <<"F", "e", "e", "l", " ", "f", "r", "e", "e", " ", "t", "o">>
YouMayStartWith ==
  <<"Y", "o", "u", " ", "m", "a", "y", " ", "s", "t", "a", "r", "t", " ", "w",
    "i", "t", "h">>
EotId == <<"<", "|", "e", "o", "t", "_", "i", "d", "|", ">">>

\* the pattern occurs in s at position i
OccursAt(s, i, pat) ==
  /\ i + Len(pat) - 1 <= Len(s)
  /\ \A k \in 1..Len(pat) : s[i + k - 1] = pat[k]

\* first position >= i of a character of set cs, or Len(s) + 1
RECURSIVE FirstOf(_, _, _)
FirstOf(s, i, cs) ==
  IF i > Len(s) THEN Len(s) + 1
  ELSE IF s[i] \in cs THEN i
  ELSE FirstOf(s, i + 1, cs)

\* text.replace(/\(.*?\)/g, ""): the dot matches no line break, so "(" starts
\* a match only when a ")" follows before the end of its line
RECURSIVE RemoveParens(_, _)
RemoveParens(s, i) ==
  IF i > Len(s) THEN <<>>
  ELSE LET j == FirstOf(s, i + 1, {")", NL})
       IN IF s[i] = "(" /\ j <= Len(s) /\ s[j] = ")"
          THEN RemoveParens(s, j + 1)
          ELSE <<s[i]>> \o RemoveParens(s, i + 1)

\* text.replace(/<phrase>.*$/gm, ""): from the phrase to the end of its line
RECURSIVE RemoveToEol(_, _, _)
RemoveToEol(s, i, phrase) ==
  IF i > Len(s) THEN <<>>
  ELSE IF OccursAt(s, i, phrase)
       THEN RemoveToEol(s, FirstOf(s, i, {NL}), phrase)
       ELSE <<s[i]>> \o RemoveToEol(s, i + 1, phrase)

\* text.replace(/<token>/g, "")
RECURSIVE RemoveAll(_, _, _)
RemoveAll(s, i, token) ==
  IF i > Len(s) THEN <<>>
  ELSE IF OccursAt(s, i, token)
       THEN RemoveAll(s, i + Len(token), token)
       ELSE <<s[i]>> \o RemoveAll(s, i + 1, token)

\* .map((line) => line.trim()).filter((line) => line)
RECURSIVE TrimmedLines(_)
TrimmedLines(lines) ==
  IF lines = <<>> THEN <<>>
  ELSE LET l == Trim(Head(lines))
       IN (IF l # <<>> THEN <<l>> ELSE <<>>) \o TrimmedLines(Tail(lines))

cleanResponse(raw) ==
  LET t1 == RemoveParens(raw, 1)
      t2 == RemoveToEol(t1, 1, KeepInCharacter)
      t3 == RemoveToEol(t2, 1, FeelFreeTo)
      t4 == RemoveToEol(t3, 1, YouMayStartWith)
      t5 == RemoveAll(t4, 1, EotId)
  IN Join(TrimmedLines(Split(t5, NL)), NL)

(***************************************************************************)
(* State.                                                                  *)
(***************************************************************************)
VARIABLES
  client,        \* which GaianetService build generates text
  character,     \* the persona configuration, read-only during a turn
  active,        \* the turn slots in use
  pc,            \* per turn: position in the listener / processMessage
  source,        \* per turn: the listener that started it
  sendable,      \* per turn: the channel is a Text, DM or News channel
  visited,       \* per turn: the orchestrator states entered, in order
  prompt,        \* per turn: the template the context was composed from
  fetchCalls,    \* per turn: number of fetch calls to the backend
  content,       \* per turn: the content the backend answered with
  event,         \* per turn: the Discord message event the listener got
  gen,           \* per turn: how generateText ended
  text,          \* per turn: response.text
  chunks,        \* per turn: the result of splitMessage
  idx,           \* per turn: index of the chunk the for loop is at
  calls,         \* per turn: the adapter.reply calls, in order
  posted,        \* per turn: the texts the platform posted to the user
  listenerSends, \* per turn: fallback sends made by the listener's own catch
  cText,         \* chunker specification: the text
  cMax,          \* chunker specification: the maximum length
  cChunks,       \* chunker specification: the chunks returned
  cDone,         \* chunker specification: splitMessage has returned
  sRaw,          \* sanitizer specification: the raw text
  sOut,          \* sanitizer specification: cleanResponse(raw)
  sAgain,        \* sanitizer specification: cleanResponse of that result
  sStep          \* sanitizer specification: number of cleanResponse calls made

turnVars ==
  <<client, character, active, pc, source, sendable, visited, prompt,
    fetchCalls, content, event, gen, text, chunks, idx, calls, posted,
    listenerSends>>
chunkVars == <<cText, cMax, cChunks, cDone>>
sanVars == <<sRaw, sOut, sAgain, sStep>>
pureVars == <<chunkVars, sanVars>>
vars == <<turnVars, pureVars>>

TurnIds == 1..NumTurns

(***************************************************************************)
(* The chunker specification: splitMessage applied to every text of the    *)
(* alphabet up to MaxTextLen, under every maximum length up to             *)
(* MaxChunkLen.                                                            *)
(***************************************************************************)
\* no message event has come in
NoEvent == [bot |-> FALSE, mentions |-> FALSE, own |-> FALSE]

TurnsIdle ==
  /\ client = "chat"
  /\ character = [template |-> "absent", bio |-> "string", lore |-> "list"]
  /\ active = {}
  /\ pc = [t \in TurnIds |-> "idle"]
  /\ source = [t \in TurnIds |-> "none"]
  /\ sendable = [t \in TurnIds |-> FALSE]
  /\ visited = [t \in TurnIds |-> <<>>]
  /\ prompt = [t \in TurnIds |-> "none"]
  /\ fetchCalls = [t \in TurnIds |-> 0]
  /\ content = [t \in TurnIds |-> <<>>]
  /\ event = [t \in TurnIds |-> NoEvent]
  /\ gen = [t \in TurnIds |-> "none"]
  /\ text = [t \in TurnIds |-> <<>>]
  /\ chunks = [t \in TurnIds |-> <<>>]
  /\ idx = [t \in TurnIds |-> 0]
  /\ calls = [t \in TurnIds |-> <<>>]
  /\ posted = [t \in TurnIds |-> <<>>]
  /\ listenerSends = [t \in TurnIds |-> 0]

ChunkIdle ==
  /\ cText = <<>>
  /\ cMax = ChunkLimit
  /\ cChunks = <<>>
  /\ cDone = FALSE

SanIdle ==
  /\ sRaw = <<>>
  /\ sOut = <<>>
  /\ sAgain = <<>>
  /\ sStep = 0

ChunkInit ==
  /\ TurnsIdle
  /\ SanIdle
  /\ cText \in Texts(MaxTextLen)
  /\ cMax \in 1..MaxChunkLen
  /\ cChunks = <<>>
  /\ cDone = FALSE

CallSplitMessage ==
  /\ ~cDone
  /\ cChunks' = splitMessage(cText, cMax)
  /\ cDone' = TRUE
  /\ UNCHANGED <<cText, cMax, turnVars, sanVars>>

ChunkNext == CallSplitMessage

ChunkSpec == ChunkInit /\ [][ChunkNext]_vars

\* ---------------------------------------------------------------------
\* The sanitizer on its own: cleanResponse over raw texts put together from
\* the pieces its patterns look for, then cleanResponse over its own result

\* a raw text is at most MaxPieces pieces long
MaxPieces == 4

EotHead == <<"<", "|", "e", "o", "t">>
EotTail == <<"_", "i", "d", "|", ">">>
FeelHead == <<"F", "e", "e", "l", " ">>
FeelTail == <<"f", "r", "e", "e", " ", "t", "o">>

\* what a completion can be made of: plain text, blanks, line breaks,
\* parentheses, the three instruction phrases and the end-of-turn marker,
\* whole or in two halves
RawPieces ==
  {<<"a">>, <<SP>>, <<NL>>, <<"(">>, <<")">>,
   KeepInCharacter, YouMayStartWith, FeelHead, FeelTail,
   EotId, EotHead, EotTail}

RECURSIVE Concat(_)
Concat(ps) == IF ps = <<>> THEN <<>> ELSE Head(ps) \o Concat(Tail(ps))

RawTexts ==
  {Concat(ps) : ps \in UNION {[1..n -> RawPieces] : n \in 0..MaxPieces}}

SanInit ==
  /\ TurnsIdle
  /\ ChunkIdle
  /\ sRaw \in RawTexts
  /\ sOut = <<>>
  /\ sAgain = <<>>
  /\ sStep = 0

\* cleanResponse(data.choices[0].text)
CleanRaw ==
  /\ sStep = 0
  /\ sOut' = cleanResponse(sRaw)
  /\ sStep' = 1
  /\ UNCHANGED <<sRaw, sAgain, turnVars, chunkVars>>

\* cleanResponse applied to a text that cleanResponse returned
CleanAgain ==
  /\ sStep = 1
  /\ sAgain' = cleanResponse(sOut)
  /\ sStep' = 2
  /\ UNCHANGED <<sRaw, sOut, turnVars, chunkVars>>

SanNext == CleanRaw \/ CleanAgain

SanSpec == SanInit /\ [][SanNext]_vars

(***************************************************************************)
(* The turn pipeline: the Discord listeners, ElizaService.processMessage   *)
(* and GaianetService.generateText.                                        *)
(***************************************************************************)
FallbackMessage ==
  <<"S", "o", "r", "r", "y", ",", " ", "I", " ", "e", "n", "c", "o", "u", "n",
    "t", "e", "r", "e", "d", " ", "a", "n", " ", "e", "r", "r", "o", "r", " ",
    "w", "h", "i", "l", "e", " ", "p", "r", "o", "c", "e", "s", "s", "i", "n",
    "g", " ", "y", "o", "u", "r", " ", "m", "e", "s", "s", "a", "g", "e", ".">>

\* the two builds of GaianetService: gaianet.service.ts posts to /completions
\* and reads choices[0].text; the one in boardroom.service.ts posts to
\* /chat/completions, reads choices[0].message.content and rejects a text
\* that is empty after cleaning
Clients == {"completions", "chat"}

\* persona configurations, as JSON.parse of the character file yields them
\* (the file is not validated): templates.messageHandlerTemplate may be
\* absent, the empty string or a template; bio may be absent, a string or a
\* list; the lore list may be absent
Characters ==
  [template : {"absent", "empty", "custom"},
   bio : {"absent", "string", "list"},
   lore : {"absent", "list"}]

\* let template = character.templates?.messageHandlerTemplate || "";
\* if (!template) template = "You are {{agentName}}. Current message: ..."
MessageHandlerTemplate(ch) ==
  IF ch.template \in {"absent", "empty"} THEN "fallback" ELSE "custom"

\* the state handed to composeContext: bio is joined when it is a list and
\* passed as it is otherwise; lore is joined, which throws on an absent lore
StateThrows(ch) == ch.lore = "absent"

\* contents the backend answers with
BackendContents ==
  { <<"a">>,
    <<"(", "a", ")">>,
    <<"a", "b", "c", " ", "d">>,
    <<"(", "x", ")", "a", "b", " ", "c", "d", " ", "e", "f">> }

\* what the fetch of generateText comes back with: a rejected fetch, a
\* response that is not ok, a body without the content field (or with an
\* empty one), a body with content
Responses ==
  {[kind |-> k, content |-> <<>>] : k \in {"unreachable", "status", "malformed"}}
    \cup {[kind |-> "ok", content |-> c] : c \in BackendContents}

\* generateText returning the content as the backend sent it
generateTextRaw(cl, r) ==
  IF r.kind = "unreachable" THEN [threw |-> "BackendUnreachable", text |-> <<>>]
  ELSE IF r.kind = "status" THEN [threw |-> "BackendError", text |-> <<>>]
  ELSE IF r.kind = "malformed" \/ r.content = <<>>
       THEN [threw |-> "MalformedResponse", text |-> <<>>]
  ELSE [threw |-> "none", text |-> r.content]

\* GaianetService.generateText after the fetch: what it throws, or the text
generateText(cl, r) ==
  IF r.kind = "unreachable" THEN [threw |-> "BackendUnreachable", text |-> <<>>]
  ELSE IF r.kind = "status" THEN [threw |-> "BackendError", text |-> <<>>]
  ELSE IF r.kind = "malformed" \/ r.content = <<>>
       THEN [threw |-> "MalformedResponse", text |-> <<>>]
  ELSE LET cleanedText == cleanResponse(r.content)
       IN IF cl = "chat" /\ cleanedText = <<>>
          THEN [threw |-> "EmptyGeneration", text |-> <<>>]
          ELSE [threw |-> "none", text |-> cleanedText]

\* how one adapter.reply call can end: the first send (message.reply,
\* interaction.followUp) posts; or it fails and channel.send posts; or it
\* fails and channel.send fails too, which rejects the call; or it fails on
\* a channel that is none of Text, DM, News, and the error is only logged
AdapterOutcomes(canSend) ==
  {"replied"} \cup (IF canSend THEN {"sent", "rejected"} ELSE {"swallowed"})

Resolves(o) == o \in {"replied", "sent", "swallowed"}
Posts(o) == o \in {"replied", "sent"}

Last(q) == q[Len(q)]
Enter(t, st) == visited' = [visited EXCEPT ![t] = Append(@, st)]

Init ==
  /\ client \in Clients
  /\ character \in Characters
  /\ active = {1}
  /\ pc = [t \in TurnIds |-> "idle"]
  /\ source = [t \in TurnIds |-> "none"]
  /\ sendable = [t \in TurnIds |-> FALSE]
  /\ visited = [t \in TurnIds |-> <<>>]
  /\ prompt = [t \in TurnIds |-> "none"]
  /\ fetchCalls = [t \in TurnIds |-> 0]
  /\ content = [t \in TurnIds |-> <<>>]
  /\ event = [t \in TurnIds |-> NoEvent]
  /\ gen = [t \in TurnIds |-> "none"]
  /\ text = [t \in TurnIds |-> <<>>]
  /\ chunks = [t \in TurnIds |-> <<>>]
  /\ idx = [t \in TurnIds |-> 0]
  /\ calls = [t \in TurnIds |-> <<>>]
  /\ posted = [t \in TurnIds |-> <<>>]
  /\ listenerSends = [t \in TurnIds |-> 0]
  /\ ChunkIdle
  /\ SanIdle

\* the listener's check without the test of message.author.bot
MessageListenerNoBotCheck(t, authorBot, mentioned, canSend, own) ==
  /\ t \in active
  /\ pc[t] = "idle"
  /\ source' = [source EXCEPT ![t] = "message"]
  /\ event' = [event EXCEPT ![t] =
       [bot |-> authorBot, mentions |-> mentioned, own |-> own]]
  /\ IF ~mentioned
     THEN /\ pc' = [pc EXCEPT ![t] = "ignored"]
          /\ UNCHANGED <<sendable, visited>>
     ELSE /\ pc' = [pc EXCEPT ![t] = "received"]
          /\ sendable' = [sendable EXCEPT ![t] = canSend]
          /\ Enter(t, "Received")
  /\ UNCHANGED <<client, character, active, prompt, fetchCalls, gen, text,
                 chunks, idx, calls, posted, listenerSends, content, pureVars>>

\* Events.MessageCreate: a bot's message and a message that does not mention
\* the bot start nothing; otherwise the adapter is built and processMessage
\* is entered
MessageListener(t, authorBot, mentioned, canSend, own) ==
  /\ t \in active
  /\ pc[t] = "idle"
  /\ source' = [source EXCEPT ![t] = "message"]
  /\ event' = [event EXCEPT ![t] =
       [bot |-> authorBot, mentions |-> mentioned, own |-> own]]
  /\ IF authorBot \/ ~mentioned
     THEN /\ pc' = [pc EXCEPT ![t] = "ignored"]
          /\ UNCHANGED <<sendable, visited>>
     ELSE /\ pc' = [pc EXCEPT ![t] = "received"]
          /\ sendable' = [sendable EXCEPT ![t] = canSend]
          /\ Enter(t, "Received")
  /\ UNCHANGED <<client, character, active, prompt, fetchCalls, gen, text,
                 chunks, idx, calls, posted, listenerSends, content, pureVars>>

\* a message of some account other than through the pipeline's own posts
MessageCreate(t, authorBot, mentioned, canSend) ==
  MessageListener(t, authorBot, mentioned, canSend, FALSE)

\* the event Discord sends for a message that turn u posted (a reply chunk
\* or the fallback message): its author is the bot's own account; whether
\* its text mentions the bot depends on what the backend wrote
OwnMessageCreate(t, u, mentioned, canSend) ==
  /\ posted[u] # <<>>
  /\ MessageListener(t, TRUE, mentioned, canSend, TRUE)

InteractionCreate(t, isMother, canSend) ==
  /\ t \in active
  /\ pc[t] = "idle"
  /\ source' = [source EXCEPT ![t] = "interaction"]
  /\ IF isMother
     THEN /\ pc' = [pc EXCEPT ![t] = "deferring"]
          /\ sendable' = [sendable EXCEPT ![t] = canSend]
     ELSE /\ pc' = [pc EXCEPT ![t] = "ignored"]
          /\ UNCHANGED sendable
  /\ UNCHANGED <<client, character, active, visited, prompt, fetchCalls, gen,
                 text, chunks, idx, calls, posted, listenerSends, content, event, pureVars>>

\* deferReply comes back: processMessage is entered, or the listener's catch
DeferReplyReturn(t, ok) ==
  /\ pc[t] = "deferring"
  /\ IF ok
     THEN /\ pc' = [pc EXCEPT ![t] = "received"]
          /\ Enter(t, "Received")
     ELSE /\ pc' = [pc EXCEPT ![t] = "listenerCatch"]
          /\ UNCHANGED visited
  /\ UNCHANGED <<client, character, active, source, sendable, prompt,
                 fetchCalls, gen, text, chunks, idx, calls, posted,
                 listenerSends, content, event, pureVars>>

\* processMessage up to composeContext: the template is the persona's or the
\* built-in one; character.lore.join throws when the lore is absent
Compose(t) ==
  /\ pc[t] = "received"
  /\ IF StateThrows(character)
     THEN /\ pc' = [pc EXCEPT ![t] = "failed"]
          /\ Enter(t, "Failed")
          /\ UNCHANGED prompt
     ELSE /\ pc' = [pc EXCEPT ![t] = "composed"]
          /\ Enter(t, "PromptComposed")
          /\ prompt' = [prompt EXCEPT ![t] = MessageHandlerTemplate(character)]
  /\ UNCHANGED <<client, character, active, source, sendable, fetchCalls, gen,
                 text, chunks, idx, calls, posted, listenerSends, content, event, pureVars>>

\* this.gaianetService.generateText(context): the fetch is sent
CallGenerate(t) ==
  /\ pc[t] = "composed"
  /\ pc' = [pc EXCEPT ![t] = "fetching"]
  /\ fetchCalls' = [fetchCalls EXCEPT ![t] = @ + 1]
  /\ UNCHANGED <<client, character, active, source, sendable, visited, prompt,
                 gen, text, chunks, idx, calls, posted, listenerSends, content, event, pureVars>>

\* processMessage going on to the chunking after generateText has thrown
FetchReturnSwallow(t, r) ==
  /\ pc[t] = "fetching"
  /\ LET g == generateText(client, r)
     IN /\ gen' = [gen EXCEPT ![t] = IF g.threw = "none" THEN "ok" ELSE g.threw]
        /\ text' = [text EXCEPT ![t] = g.text]
        /\ content' = [content EXCEPT ![t] = r.content]
        /\ pc' = [pc EXCEPT ![t] = "generated"]
        /\ Enter(t, "Generated")
  /\ UNCHANGED <<client, character, active, source, sendable, prompt,
                 fetchCalls, chunks, idx, calls, posted, listenerSends,
                 event, pureVars>>

\* a failed generation issued once more
FetchReturnRetry(t, r) ==
  /\ pc[t] = "fetching"
  /\ LET g == generateText(client, r)
     IN /\ gen' = [gen EXCEPT ![t] = IF g.threw = "none" THEN "ok" ELSE g.threw]
        /\ text' = [text EXCEPT ![t] = g.text]
        /\ content' = [content EXCEPT ![t] = r.content]
        /\ IF g.threw = "none"
           THEN /\ pc' = [pc EXCEPT ![t] = "generated"]
                /\ Enter(t, "Generated")
           ELSE IF fetchCalls[t] < 2
           THEN /\ pc' = [pc EXCEPT ![t] = "composed"]
                /\ UNCHANGED visited
           ELSE /\ pc' = [pc EXCEPT ![t] = "failed"]
                /\ Enter(t, "Failed")
  /\ UNCHANGED <<client, character, active, source, sendable, prompt,
                 fetchCalls, chunks, idx, calls, posted, listenerSends,
                 event, pureVars>>

\* the fetch comes back and generateText returns or throws
FetchReturn(t, r) ==
  /\ pc[t] = "fetching"
  /\ LET g == generateText(client, r)
     IN /\ gen' = [gen EXCEPT ![t] = IF g.threw = "none" THEN "ok" ELSE g.threw]
        /\ text' = [text EXCEPT ![t] = g.text]
        /\ content' = [content EXCEPT ![t] = r.content]
        /\ IF g.threw = "none"
           THEN /\ pc' = [pc EXCEPT ![t] = "generated"]
                /\ Enter(t, "Generated")
           ELSE /\ pc' = [pc EXCEPT ![t] = "failed"]
                /\ Enter(t, "Failed")
  /\ UNCHANGED <<client, character, active, source, sendable, prompt,
                 fetchCalls, chunks, idx, calls, posted, listenerSends,
                 event, pureVars>>

\* the chunks kept in a field of the one ElizaService instead of a local
SplitResponseShared(t) ==
  /\ pc[t] = "generated"
  /\ chunks' = [u \in TurnIds |-> splitMessage(text[t], ChunkLimit)]
  /\ idx' = [idx EXCEPT ![t] = 1]
  /\ pc' = [pc EXCEPT ![t] = "delivering"]
  /\ Enter(t, "Chunked")
  /\ UNCHANGED <<client, character, active, source, sendable, prompt,
                 fetchCalls, gen, text, calls, posted, listenerSends, content,
                 event, pureVars>>

\* const chunks = this.splitMessage(response.text)
SplitResponse(t) ==
  /\ pc[t] = "generated"
  /\ chunks' = [chunks EXCEPT ![t] = splitMessage(text[t], ChunkLimit)]
  /\ idx' = [idx EXCEPT ![t] = 1]
  /\ pc' = [pc EXCEPT ![t] = "delivering"]
  /\ Enter(t, "Chunked")
  /\ UNCHANGED <<client, character, active, source, sendable, prompt,
                 fetchCalls, gen, text, calls, posted, listenerSends, content, event, pureVars>>

\* the call record of an adapter.reply call
Call(txt, k) == [text |-> txt, kind |-> k, status |-> "inflight"]
Finish(q, o) ==
  [q EXCEPT ![Len(q)].status = IF Resolves(o) THEN "resolved" ELSE "rejected"]

\* the replies started without awaiting the one before
StartReplyNoAwait(t) ==
  /\ pc[t] \in {"delivering", "replying"}
  /\ Len(calls[t]) < Len(chunks[t])
  /\ calls' = [calls EXCEPT ![t] =
       Append(@, Call(chunks[t][Len(calls[t]) + 1], "chunk"))]
  /\ pc' = [pc EXCEPT ![t] = "replying"]
  /\ IF Last(visited[t]) = "Delivering"
     THEN UNCHANGED visited
     ELSE Enter(t, "Delivering")
  /\ UNCHANGED <<client, character, active, source, sendable, prompt,
                 fetchCalls, gen, text, chunks, idx, posted, listenerSends, content, event, pureVars>>

\* the for loop: await adapter.reply(chunk) is called for the chunk at idx
StartReply(t) ==
  /\ pc[t] = "delivering"
  /\ idx[t] <= Len(chunks[t])
  /\ calls' = [calls EXCEPT ![t] = Append(@, Call(chunks[t][idx[t]], "chunk"))]
  /\ pc' = [pc EXCEPT ![t] = "replying"]
  /\ IF Last(visited[t]) = "Delivering"
     THEN UNCHANGED visited
     ELSE Enter(t, "Delivering")
  /\ UNCHANGED <<client, character, active, source, sendable, prompt,
                 fetchCalls, gen, text, chunks, idx, posted, listenerSends, content, event, pureVars>>

\* a rejected reply sending the fallback and the loop going on all the same
ReplyReturnContinue(t, o) ==
  /\ pc[t] = "replying"
  /\ o \in AdapterOutcomes(sendable[t])
  /\ calls' = [calls EXCEPT ![t] = Finish(@, o)]
  /\ posted' = [posted EXCEPT ![t] =
       IF Posts(o) THEN Append(@, chunks[t][idx[t]]) ELSE @]
  /\ idx' = [idx EXCEPT ![t] = @ + 1]
  /\ pc' = [pc EXCEPT ![t] = "delivering"]
  /\ IF Resolves(o) THEN UNCHANGED visited ELSE Enter(t, "Failed")
  /\ UNCHANGED <<client, character, active, source, sendable, prompt,
                 fetchCalls, gen, text, chunks, listenerSends, content, event, pureVars>>

\* a rejected reply that nothing handles: the loop never goes on
ReplyReturnHang(t, o) ==
  /\ pc[t] = "replying"
  /\ o \in AdapterOutcomes(sendable[t])
  /\ calls' = [calls EXCEPT ![t] = Finish(@, o)]
  /\ posted' = [posted EXCEPT ![t] =
       IF Posts(o) THEN Append(@, chunks[t][idx[t]]) ELSE @]
  /\ IF Resolves(o)
     THEN /\ idx' = [idx EXCEPT ![t] = @ + 1]
          /\ pc' = [pc EXCEPT ![t] = "delivering"]
     ELSE /\ pc' = [pc EXCEPT ![t] = "hung"]
          /\ UNCHANGED idx
  /\ UNCHANGED <<client, character, active, source, sendable, visited, prompt,
                 fetchCalls, gen, text, chunks, listenerSends, content,
                 event, pureVars>>

\* the for loop outside the try block: a rejected reply rejects processMessage
ReplyReturnEscape(t, o) ==
  /\ pc[t] = "replying"
  /\ o \in AdapterOutcomes(sendable[t])
  /\ calls' = [calls EXCEPT ![t] = Finish(@, o)]
  /\ posted' = [posted EXCEPT ![t] =
       IF Posts(o) THEN Append(@, chunks[t][idx[t]]) ELSE @]
  /\ IF Resolves(o)
     THEN /\ idx' = [idx EXCEPT ![t] = @ + 1]
          /\ pc' = [pc EXCEPT ![t] = "delivering"]
          /\ UNCHANGED visited
     ELSE /\ pc' = [pc EXCEPT ![t] = "listenerCatch"]
          /\ Enter(t, "Failed")
          /\ UNCHANGED idx
  /\ UNCHANGED <<client, character, active, source, sendable, prompt,
                 fetchCalls, gen, text, chunks, listenerSends, content,
                 event, pureVars>>

\* adapter.reply(chunk) comes back: the loop goes on to the next chunk, or
\* the rejection leaves the loop for the catch block
ReplyReturn(t, o) ==
  /\ pc[t] = "replying"
  /\ o \in AdapterOutcomes(sendable[t])
  /\ calls' = [calls EXCEPT ![t] = Finish(@, o)]
  /\ posted' = [posted EXCEPT ![t] =
       IF Posts(o) THEN Append(@, chunks[t][idx[t]]) ELSE @]
  /\ IF Resolves(o)
     THEN /\ idx' = [idx EXCEPT ![t] = @ + 1]
          /\ pc' = [pc EXCEPT ![t] = "delivering"]
          /\ UNCHANGED visited
     ELSE /\ pc' = [pc EXCEPT ![t] = "failed"]
          /\ Enter(t, "Failed")
          /\ UNCHANGED idx
  /\ UNCHANGED <<client, character, active, source, sendable, prompt,
                 fetchCalls, gen, text, chunks, listenerSends, content, event, pureVars>>

\* the loop is over: processMessage resolves
FinishLoop(t) ==
  /\ pc[t] = "delivering"
  /\ idx[t] > Len(chunks[t])
  /\ pc' = [pc EXCEPT ![t] = "returned"]
  /\ Enter(t, "Completed")
  /\ UNCHANGED <<client, character, active, source, sendable, prompt,
                 fetchCalls, gen, text, chunks, idx, calls, posted,
                 listenerSends, content, event, pureVars>>

\* the catch block of processMessage: await adapter.reply(<fallback>)
StartFallback(t) ==
  /\ pc[t] = "failed"
  /\ calls' = [calls EXCEPT ![t] = Append(@, Call(FallbackMessage, "fallback"))]
  /\ pc' = [pc EXCEPT ![t] = "replyingFallback"]
  /\ UNCHANGED <<client, character, active, source, sendable, visited, prompt,
                 fetchCalls, gen, text, chunks, idx, posted, listenerSends, content, event, pureVars>>

\* a rejected fallback reply sent once more by processMessage
FallbackReturnResend(t, o) ==
  /\ pc[t] = "replyingFallback"
  /\ o \in AdapterOutcomes(sendable[t])
  /\ calls' = [calls EXCEPT ![t] = Finish(@, o)]
  /\ posted' = [posted EXCEPT ![t] =
       IF Posts(o) THEN Append(@, FallbackMessage) ELSE @]
  /\ pc' = [pc EXCEPT ![t] = IF Resolves(o) THEN "returned" ELSE "failed"]
  /\ UNCHANGED <<client, character, active, source, sendable, visited, prompt,
                 fetchCalls, gen, text, chunks, idx, listenerSends, content, event, pureVars>>

\* the fallback reply comes back: processMessage resolves, or rejects into
\* the listener's catch
FallbackReturn(t, o) ==
  /\ pc[t] = "replyingFallback"
  /\ o \in AdapterOutcomes(sendable[t])
  /\ calls' = [calls EXCEPT ![t] = Finish(@, o)]
  /\ posted' = [posted EXCEPT ![t] =
       IF Posts(o) THEN Append(@, FallbackMessage) ELSE @]
  /\ pc' = [pc EXCEPT ![t] = IF Resolves(o) THEN "returned" ELSE "listenerCatch"]
  /\ UNCHANGED <<client, character, active, source, sendable, visited, prompt,
                 fetchCalls, gen, text, chunks, idx, listenerSends, content, event, pureVars>>

\* the catch of the listener: it sends the fallback text itself, with
\* message.reply (MessageCreate) or followUp / reply (InteractionCreate)
ListenerCatch(t) ==
  /\ pc[t] = "listenerCatch"
  /\ listenerSends' = [listenerSends EXCEPT ![t] = @ + 1]
  /\ pc' = [pc EXCEPT ![t] = "listenerSending"]
  /\ UNCHANGED <<client, character, active, source, sendable, visited, prompt,
                 fetchCalls, gen, text, chunks, idx, calls, posted, content, event, pureVars>>

\* the listener's own send comes back; a failure is caught and logged by the
\* interaction listener and is an unhandled rejection of the message listener
ListenerSendReturn(t, ok) ==
  /\ pc[t] = "listenerSending"
  /\ posted' = [posted EXCEPT ![t] =
       IF ok THEN Append(@, FallbackMessage) ELSE @]
  /\ pc' = [pc EXCEPT ![t] =
       IF ok \/ source[t] = "interaction" THEN "handled" ELSE "unhandled"]
  /\ UNCHANGED <<client, character, active, source, sendable, visited, prompt,
                 fetchCalls, gen, text, chunks, idx, calls, listenerSends, content, event, pureVars>>

Next ==
  \/ \E t \in TurnIds, authorBot \in BOOLEAN, mentioned \in BOOLEAN,
        canSend \in BOOLEAN :
       MessageCreate(t, authorBot, mentioned, canSend)
  \/ \E t \in TurnIds, isMother \in BOOLEAN, canSend \in BOOLEAN :
       InteractionCreate(t, isMother, canSend)
  \/ \E t \in TurnIds, ok \in BOOLEAN : DeferReplyReturn(t, ok)
  \/ \E t \in TurnIds : Compose(t)
  \/ \E t \in TurnIds : CallGenerate(t)
  \/ \E t \in TurnIds, r \in Responses : FetchReturn(t, r)
  \/ \E t \in TurnIds : SplitResponse(t)
  \/ \E t \in TurnIds : StartReply(t)
  \/ \E t \in TurnIds, o \in {"replied", "sent", "swallowed", "rejected"} :
       ReplyReturn(t, o)
  \/ \E t \in TurnIds : FinishLoop(t)
  \/ \E t \in TurnIds : StartFallback(t)
  \/ \E t \in TurnIds, o \in {"replied", "sent", "swallowed", "rejected"} :
       FallbackReturn(t, o)
  \/ \E t \in TurnIds : ListenerCatch(t)
  \/ \E t \in TurnIds, ok \in BOOLEAN : ListenerSendReturn(t, ok)

Spec == Init /\ [][Next]_vars

\* ---------------------------------------------------------------------
\* Progress. The steps of a turn between two awaits are synchronous code and
\* the event loop runs the continuation of every settled promise, so a step
\* of the program that can be taken is taken. That the backend call and the
\* platform calls come back is the assumption progress is stated under.

\* the program's own steps of turn t
ProgramStep(t) ==
  \/ Compose(t)
  \/ CallGenerate(t)
  \/ SplitResponse(t)
  \/ StartReply(t)
  \/ FinishLoop(t)
  \/ StartFallback(t)
  \/ ListenerCatch(t)

\* a call of turn t to the backend or to the platform comes back
CallReturns(t) ==
  \/ \E ok \in BOOLEAN : DeferReplyReturn(t, ok)
  \/ \E r \in Responses : FetchReturn(t, r)
  \/ \E o \in {"replied", "sent", "swallowed", "rejected"} : ReplyReturn(t, o)
  \/ \E o \in {"replied", "sent", "swallowed", "rejected"} : FallbackReturn(t, o)
  \/ \E ok \in BOOLEAN : ListenerSendReturn(t, ok)

LiveSpec ==
  /\ Init
  /\ [][Next]_vars
  /\ \A t \in TurnIds : WF_vars(ProgramStep(t)) /\ WF_vars(CallReturns(t))

\* ---------------------------------------------------------------------
\* Two turns at once: the listeners are async callbacks on one event loop,
\* so the steps of two turns interleave at every await. Both turns go
\* through the one ElizaService and the one GaianetService.

ConcurrentTurns == {1, 2}

ConcInit ==
  /\ client \in Clients
  /\ character \in {ch \in Characters : ch.bio = "list" /\ ch.template = "custom"}
  /\ active = ConcurrentTurns
  /\ pc = [t \in TurnIds |-> "idle"]
  /\ source = [t \in TurnIds |-> "none"]
  /\ sendable = [t \in TurnIds |-> FALSE]
  /\ visited = [t \in TurnIds |-> <<>>]
  /\ prompt = [t \in TurnIds |-> "none"]
  /\ fetchCalls = [t \in TurnIds |-> 0]
  /\ content = [t \in TurnIds |-> <<>>]
  /\ event = [t \in TurnIds |-> NoEvent]
  /\ gen = [t \in TurnIds |-> "none"]
  /\ text = [t \in TurnIds |-> <<>>]
  /\ chunks = [t \in TurnIds |-> <<>>]
  /\ idx = [t \in TurnIds |-> 0]
  /\ calls = [t \in TurnIds |-> <<>>]
  /\ posted = [t \in TurnIds |-> <<>>]
  /\ listenerSends = [t \in TurnIds |-> 0]
  /\ ChunkIdle
  /\ SanIdle

ConcSpec == ConcInit /\ [][Next]_vars

\* ---------------------------------------------------------------------
\* The bot hears its own posts: every message a turn posts comes back to
\* the MessageCreate listener as an event of its own, next to the events of
\* other accounts

EchoInit == ConcInit /\ client = "completions" /\ character.lore = "list"

EchoNext ==
  \/ Next
  \/ \E t \in TurnIds, u \in TurnIds, mentioned \in BOOLEAN, canSend \in BOOLEAN :
       OwnMessageCreate(t, u, mentioned, canSend)

EchoSpec == EchoInit /\ [][EchoNext]_vars

(***************************************************************************)
(* Properties of the turn pipeline (Spec).                                 *)
(***************************************************************************)
\* the listener has nothing more to do for the inbound message
Finished == {"returned", "handled", "unhandled"}
Terminal == {"Completed", "Failed"}
FailureKinds ==
  {"BackendUnreachable", "BackendError", "MalformedResponse", "EmptyGeneration"}

Entered(t, st) == \E i \in 1..Len(visited[t]) : visited[t][i] = st
ChunkCalls(t) == {i \in 1..Len(calls[t]) : calls[t][i].kind = "chunk"}
FallbackCalls(t) == {i \in 1..Len(calls[t]) : calls[t][i].kind = "fallback"}
FallbacksPosted(t) == {i \in 1..Len(posted[t]) : posted[t][i] = FallbackMessage}

\* C1: the chunk replies of a turn are made in chunk order, the i-th call
\* carrying the i-th chunk, and a call is started only when every call before
\* it has come back: at most one reply of the turn is in flight.
C1_OrderedOneAtATime ==
  \A t \in TurnIds :
    /\ \A i \in 1..Len(calls[t]) :
         /\ i < Len(calls[t]) => calls[t][i].status # "inflight"
         /\ calls[t][i].kind = "chunk" =>
              (i <= Len(chunks[t]) /\ calls[t][i].text = chunks[t][i])
    /\ \A i \in ChunkCalls(t), j \in FallbackCalls(t) : i < j

C1_Witness ==
  \E t \in TurnIds :
    /\ pc[t] = "replying"
    /\ Len(calls[t]) = 3
    /\ calls[t][3].kind = "chunk"
    /\ calls[t][3].status = "inflight"
    /\ calls[t][1].status = "resolved"
    /\ calls[t][2].status = "resolved"
    /\ calls[t][1].text # calls[t][2].text

\* C2: when the listener is done with a turn whose text was chunked, every
\* chunk has had its reply call, whatever calls failed.
C2_AllChunksAttempted ==
  \A t \in TurnIds :
    (pc[t] \in Finished /\ Entered(t, "Chunked")) =>
      Cardinality(ChunkCalls(t)) = Len(chunks[t])

\* C3: when generateText has failed, of whatever kind, the turn went from
\* PromptComposed straight to Failed: nothing was chunked, no reply call
\* carries a chunk, nothing but the fallback was posted, and the only reply
\* call is the fallback one.
C3_GenerationFailureGoesToFailed ==
  \A t \in TurnIds :
    gen[t] \in FailureKinds =>
      /\ visited[t] = <<"Received", "PromptComposed", "Failed">>
      /\ chunks[t] = <<>>
      /\ ChunkCalls(t) = {}
      /\ Len(calls[t]) <= 1
      /\ \A i \in 1..Len(posted[t]) : posted[t][i] = FallbackMessage
      /\ pc[t] \in Finished =>
           (Len(calls[t]) = 1 /\ calls[t][1].text = FallbackMessage)

C3_Witness ==
  \E t \in TurnIds :
    /\ gen[t] = "EmptyGeneration"
    /\ pc[t] = "returned"
    /\ calls[t] = <<[text |-> FallbackMessage, kind |-> "fallback",
                     status |-> "resolved"]>>
    /\ posted[t] = <<FallbackMessage>>

\* C4 as stated: in a finished turn that reached Failed exactly one fallback
\* message was emitted, through the adapter, it is the last reply call, and
\* no second fallback message was sent for the inbound message.
C4_OneFallbackNoSecond ==
  \A t \in TurnIds :
    (pc[t] \in Finished /\ Entered(t, "Failed")) =>
      /\ Cardinality(FallbackCalls(t)) = 1
      /\ Last(calls[t]).kind = "fallback"
      /\ listenerSends[t] = 0

\* C4 amended: in a finished turn that reached Failed exactly one reply call
\* carries the fallback message and it is the last reply call; the listener's
\* own catch sends the fallback text once more exactly when that call was
\* rejected; and the user is shown at most one fallback message.
C4_OneFallbackCallListenerResend ==
  \A t \in TurnIds :
    (pc[t] \in Finished /\ Entered(t, "Failed")) =>
      /\ Cardinality(FallbackCalls(t)) = 1
      /\ Last(calls[t]).kind = "fallback"
      /\ Last(calls[t]).text = FallbackMessage
      /\ listenerSends[t] = (IF Last(calls[t]).status = "rejected" THEN 1 ELSE 0)
      /\ Cardinality(FallbacksPosted(t)) <= 1

C4_Witness ==
  \E t \in TurnIds :
    /\ pc[t] = "handled"
    /\ Entered(t, "Failed")
    /\ Cardinality(FallbackCalls(t)) = 1
    /\ Last(calls[t]).status = "rejected"
    /\ listenerSends[t] = 1
    /\ Cardinality(FallbacksPosted(t)) = 1

\* C5: the backend is called at most once in a turn: once the context has
\* been composed and generateText called there has been exactly one fetch,
\* before that none, and a failure of it leaves the count at one.
C5_NoRetry ==
  \A t \in TurnIds :
    /\ fetchCalls[t] <= 1
    /\ fetchCalls[t] =
         (IF Entered(t, "PromptComposed") /\ pc[t] # "composed" THEN 1 ELSE 0)

C5_Witness ==
  \E t \in TurnIds :
    /\ gen[t] = "BackendError"
    /\ pc[t] \in Finished
    /\ fetchCalls[t] = 1

\* C6: the states of a turn are entered in the order Received,
\* PromptComposed, Generated, Chunked, Delivering, Completed, each step from
\* the state just before it, with Failed possible in place of any step; no
\* state is entered twice; a finished turn is in exactly one of Completed and
\* Failed; and a turn in a terminal state enters no further state.
Rank(st) ==
  CASE st = "Received" -> 1
    [] st = "PromptComposed" -> 2
    [] st = "Generated" -> 3
    [] st = "Chunked" -> 4
    [] st = "Delivering" -> 5
    [] st = "Completed" -> 6
    [] st = "Failed" -> 6

StepsInOrder(t) ==
  /\ visited[t] # <<>> => visited[t][1] = "Received"
  /\ \A i \in 2..Len(visited[t]) :
       /\ Rank(visited[t][i]) > Rank(visited[t][i - 1])
       /\ visited[t][i] # "Failed" =>
            Rank(visited[t][i]) = Rank(visited[t][i - 1]) + 1
  /\ (pc[t] \in Finished /\ visited[t] # <<>>) =>
       Last(visited[t]) \in Terminal
  /\ (visited[t] # <<>> /\ Last(visited[t]) = "Completed") =>
       pc[t] = "returned"

NoStepAfterTerminal(t) ==
  /\ (visited[t] # <<>> /\ Last(visited[t]) \in Terminal) =>
       visited'[t] = visited[t]
  /\ pc[t] \in Finished =>
       /\ pc'[t] = pc[t]
       /\ calls'[t] = calls[t]
       /\ posted'[t] = posted[t]
       /\ fetchCalls'[t] = fetchCalls[t]

C6_StepsInOrderOnce ==
  /\ [](\A t \in TurnIds : StepsInOrder(t))
  /\ [][\A t \in TurnIds : NoStepAfterTerminal(t)]_vars

C6_Witness ==
  \E t \in TurnIds :
    /\ pc[t] = "returned"
    /\ visited[t] = <<"Received", "PromptComposed", "Generated", "Chunked",
                      "Delivering", "Completed">>
    /\ Len(calls[t]) = 3

(***************************************************************************)
(* Properties of the chunker (ChunkSpec).                                  *)
(***************************************************************************)
HasWhitespace(s) == \E k \in 1..Len(s) : s[k] \in Whitespace
HasSpace(s) == \E k \in 1..Len(s) : s[k] = SP

\* the whitespace-separated words of s, in order
RECURSIVE WordsFrom(_, _, _)
WordsFrom(s, i, cur) ==
  IF i > Len(s) THEN (IF cur # <<>> THEN <<cur>> ELSE <<>>)
  ELSE IF s[i] \in Whitespace
       THEN (IF cur # <<>> THEN <<cur>> ELSE <<>>) \o WordsFrom(s, i + 1, <<>>)
       ELSE WordsFrom(s, i + 1, Append(cur, s[i]))

Words(s) == WordsFrom(s, 1, <<>>)

\* every run of whitespace replaced by one space
RECURSIVE Collapse(_)
Collapse(s) ==
  IF s = <<>> THEN <<>>
  ELSE IF Head(s) \in Whitespace
       THEN <<SP>> \o Collapse(DropLeadingWs(s))
       ELSE <<Head(s)>> \o Collapse(Tail(s))

NoLongWord(s, maxLength) ==
  \A k \in 1..Len(Words(s)) : Len(Words(s)[k]) <= maxLength

\* a chunk that is one space-delimited piece of the text, longer than the limit
OversizedToken(c, s, maxLength) ==
  /\ Len(c) > maxLength
  /\ ~HasSpace(c)
  /\ \E k \in 1..Len(Split(s, SP)) :
       /\ Len(Split(s, SP)[k]) > maxLength
       /\ c = Trim(Split(s, SP)[k])

C8_NoEmptyChunk ==
  (cDone /\ cText # <<>>) =>
    /\ \A i \in 1..Len(cChunks) : cChunks[i] # <<>>
    /\ (cText # <<>> => cChunks # <<>>)

\* C9: a text no longer than maxLength is returned as the only chunk, unchanged.
C9_ShortTextUnchanged ==
  (cDone /\ Len(cText) <= cMax) => cChunks = <<cText>>

C9_Witness ==
  /\ cDone
  /\ Len(cText) <= cMax
  /\ Trim(cText) # cText
  /\ Trim(cText) # <<>>
  /\ cChunks = <<cText>>

\* C10 as stated: when no word is longer than maxLength, the chunks joined with
\* single spaces, whitespace collapsed, are the text exactly.
C10_RoundTripExact ==
  (cDone /\ NoLongWord(cText, cMax)) =>
    Collapse(Join(cChunks, SP)) = cText

\* C10 amended: when no word is longer than maxLength, the chunks joined with
\* single spaces are the text up to whitespace: both sides with whitespace
\* collapsed and the ends trimmed.
C10_RoundTripNormalized ==
  (cDone /\ NoLongWord(cText, cMax)) =>
    Trim(Collapse(Join(cChunks, SP))) = Trim(Collapse(cText))

C10_Witness ==
  /\ cDone
  /\ NoLongWord(cText, cMax)
  /\ Len(cChunks) >= 2
  /\ \A i \in 1..Len(cChunks) : cChunks[i] # <<>>
  /\ Collapse(cText) # cText
  /\ Trim(Collapse(Join(cChunks, SP))) = Trim(Collapse(cText))

\* the words of the chunks, chunk after chunk
RECURSIVE WordsOfAll(_)
WordsOfAll(cs) ==
  IF cs = <<>> THEN <<>> ELSE Words(Head(cs)) \o WordsOfAll(Tail(cs))

RECURSIVE NonEmpty(_)
NonEmpty(ws) ==
  IF ws = <<>> THEN <<>>
  ELSE (IF Head(ws) # <<>> THEN <<Head(ws)>> ELSE <<>>) \o NonEmpty(Tail(ws))

\* the least number of chunks that hold the pieces ws in order, separated by
\* single spaces, within maxLength (a piece longer than maxLength alone):
\* room is the length of the chunk being filled, -1 when none is begun
RECURSIVE FewestChunks(_, _, _, _)
FewestChunks(ws, i, room, maxLength) ==
  IF i > Len(ws) THEN 0
  ELSE IF room >= 0 /\ room + 1 + Len(ws[i]) <= maxLength
       THEN FewestChunks(ws, i + 1, room + 1 + Len(ws[i]), maxLength)
       ELSE 1 + FewestChunks(ws, i + 1, Len(ws[i]), maxLength)

\* C19: for a text longer than maxLength every chunk but the last is full:
\* with one space and the first word of the next chunk it would exceed
\* maxLength; and the chunks are as few as a split at the spaces allows.
C19_GreedyMaximal ==
  (cDone /\ Len(cText) > cMax) =>
    /\ \A i \in 1..(Len(cChunks) - 1) :
         Len(cChunks[i]) + 1 + Len(Split(cChunks[i + 1], SP)[1]) > cMax
    /\ Len(cChunks) = FewestChunks(NonEmpty(Split(cText, SP)), 1, -1, cMax)

\* ---------------------------------------------------------------------
\* Properties of the sanitizer (specification SanSpec)

Contains(s, pat) == \E i \in 1..Len(s) : OccursAt(s, i, pat)

\* C12: cleaning is idempotent: cleaning a cleaned text changes nothing, so
\* no removal of a marker or of a parenthetical span leaves a text that a
\* second pass would still change.
\* Violated: "Feel <|eot_id|>free to" cleans to "Feel free to" (the phrases
\* are removed before the marker is), and that cleans to the empty text.
C12_CleanIdempotent == (sStep = 2) => (sAgain = sOut)

\* the parentheses of s are balanced: no ")" without an earlier open "(",
\* and every "(" closed
RECURSIVE Depth(_, _, _)
Depth(s, i, d) ==
  IF i > Len(s) THEN d
  ELSE IF s[i] = "(" THEN Depth(s, i + 1, d + 1)
  ELSE IF s[i] = ")" THEN (IF d = 0 THEN -1 ELSE Depth(s, i + 1, d - 1))
  ELSE Depth(s, i + 1, d)

Balanced(s) == Depth(s, 1, 0) = 0

\* C13: a raw text with balanced parentheses, nested spans and spans over a
\* line break included, is cleaned to a text with no "(" and no ")".
\* Violated: "(())" is cleaned to ")", and "(" line break ")" keeps both.
C13_BalancedParensRemoved ==
  (sStep >= 1 /\ Balanced(sRaw)) =>
    ~ \E k \in 1..Len(sOut) : sOut[k] \in {"(", ")"}

\* C20: a cleaned text holds no end-of-turn marker and none of the three
\* instruction phrases, also when a removal brings the pieces of one
\* together.
\* Violated: "<|eot<|eot_id|>_id|>" is cleaned to "<|eot_id|>".
C20_NoArtifactLeft ==
  (sStep >= 1) =>
    /\ ~ Contains(sOut, EotId)
    /\ ~ Contains(sOut, KeepInCharacter)
    /\ ~ Contains(sOut, FeelFreeTo)
    /\ ~ Contains(sOut, YouMayStartWith)

\* ---------------------------------------------------------------------
\* Properties of the generation client inside the pipeline (specification Spec)

\* the fetch of turn t has come back with a content that cleans to nothing
CleansToNothing(t) ==
  /\ gen[t] # "none"
  /\ content[t] # <<>>
  /\ cleanResponse(content[t]) = <<>>

\* C14: a backend content that cleans to the empty text makes generateText
\* fail with EmptyGeneration, so a text that generateText returns is never
\* empty, and the turn goes to Failed.
\* Violated by the client that processMessage imports (gaianet.service.ts):
\* it returns the cleaned text unchecked, and content "(a)" gives the text "".
C14_EmptyGenerationFails ==
  \A t \in TurnIds :
    /\ gen[t] = "ok" => text[t] # <<>>
    /\ CleansToNothing(t) =>
         /\ gen[t] = "EmptyGeneration"
         /\ Entered(t, "Failed")

\* the texts of the reply calls of turn t, in call order
CallTexts(t) == [i \in 1..Len(calls[t]) |-> calls[t][i].text]

\* processMessage of turn t has returned after a generation that succeeded
\* and reply calls that all resolved
Succeeded(t) ==
  /\ pc[t] = "returned"
  /\ gen[t] = "ok"
  /\ \A i \in 1..Len(calls[t]) : calls[t][i].status = "resolved"

\* C15: when the generation succeeds and every reply call resolves, the
\* texts passed to reply are exactly the chunks of the cleaned backend
\* content, each once and in order, with no fallback message, and the turn
\* ends Completed; a cleaned text within the limit gives exactly one call,
\* which carries that text.
C15_SuccessfulTurn ==
  \A t \in TurnIds :
    Succeeded(t) =>
      LET cleaned == cleanResponse(content[t])
      IN /\ CallTexts(t) = splitMessage(cleaned, ChunkLimit)
         /\ FallbackCalls(t) = {}
         /\ ~ Entered(t, "Failed")
         /\ Last(visited[t]) = "Completed"
         /\ Len(cleaned) <= ChunkLimit => CallTexts(t) = <<cleaned>>

\* a turn has succeeded with a content that the cleaning changed and that
\* was sent as several messages, all of them posted
C15_Witness ==
  \E t \in TurnIds :
    /\ Succeeded(t)
    /\ cleanResponse(content[t]) # content[t]
    /\ Len(calls[t]) >= 2
    /\ posted[t] = CallTexts(t)

\* ---------------------------------------------------------------------
\* Properties of the compose step (specification Spec)

\* C16: whatever the persona configuration holds (template empty or absent,
\* bio or lore missing), the compose step of a received turn produces a
\* prompt, from the built-in template when the persona has none, and the
\* turn never goes from Received to Failed.
\* Violated: with no lore in the character file, character.lore.join throws
\* while the state for composeContext is built, and the catch block takes
\* the turn to Failed before any prompt exists.
C16_ComposeNeverFails ==
  \A t \in TurnIds :
    (Entered(t, "Received") /\ pc[t] # "received") =>
      /\ Entered(t, "PromptComposed")
      /\ character.template \in {"absent", "empty"} => prompt[t] = "fallback"

\* ---------------------------------------------------------------------
\* Properties of two turns at once (specification ConcSpec)

\* everything the program holds for turn t
TurnState(t) ==
  <<pc[t], source[t], sendable[t], visited[t], prompt[t], fetchCalls[t],
    content[t], event[t], gen[t], text[t], chunks[t], idx[t], calls[t],
    posted[t], listenerSends[t]>>

\* what turn t has passed to its adapter comes from its own backend content:
\* its chunks are the chunks of its own cleaned content, its i-th chunk call
\* carries its own i-th chunk, any other call carries the fallback message,
\* and what its adapter posted is what was passed in those calls
OwnTextsOnly(t) ==
  LET own == splitMessage(cleanResponse(content[t]), ChunkLimit)
  IN /\ chunks[t] # <<>> => chunks[t] = own
     /\ \A i \in 1..Len(calls[t]) :
          IF calls[t][i].kind = "chunk"
          THEN /\ i <= Len(own)
               /\ calls[t][i].text = own[i]
               /\ \A j \in 1..i : calls[t][j].kind = "chunk"
          ELSE calls[t][i].text = FallbackMessage
     /\ \A i \in 1..Len(posted[t]) :
          \/ posted[t][i] = FallbackMessage
          \/ \E j \in 1..Len(calls[t]) : calls[t][j].text = posted[t][i]

\* a step changes the state of at most one turn, and nothing that the turns
\* share
OneTurnPerStep ==
  /\ client' = client
  /\ character' = character
  /\ \A t, u \in TurnIds :
       (t # u /\ TurnState(t)' # TurnState(t)) => TurnState(u)' = TurnState(u)

\* C18: in every interleaving of two turns, each turn's adapter is passed
\* only texts that come from the turn's own backend content, in the turn's
\* own chunk order, and no step of a turn changes what the other turn or
\* both turns read.
C18_TurnsIndependent ==
  /\ [](\A t \in TurnIds : OwnTextsOnly(t))
  /\ [][OneTurnPerStep]_vars

\* two turns with different backend contents both have a reply call in
\* flight, one of them its second
C18_Witness ==
  /\ pc[1] = "replying"
  /\ pc[2] = "replying"
  /\ content[1] # content[2]
  /\ Len(calls[1]) >= 2
  /\ Len(calls[2]) >= 1
  /\ chunks[1] # chunks[2]

\* ---------------------------------------------------------------------
\* Properties of what the turn passes to its adapter (specification Spec)

\* C21: every text passed to adapter.reply, a chunk or the fallback message,
\* is a non-empty string.
\* Violated: splitMessage returns an empty first chunk when the first word
\* does not fit ("abc d" at limit 3 gives "", "abc", "d"), and each chunk is
\* passed to adapter.reply as it is.
C21_NoEmptyTextDelivered ==
  \A t \in TurnIds : \A i \in 1..Len(calls[t]) : calls[t][i].text # <<>>

\* C22: the fallback message is never posted in a turn in which a reply
\* chunk has been posted before: what a turn posts is chunks only or the
\* fallback message only.
\* Violated: the first chunk is posted, the reply call for the second is
\* rejected, and the catch block of processMessage sends the fallback.
C22_NoFallbackAfterChunk ==
  \A t \in TurnIds : \A i, j \in 1..Len(posted[t]) :
    (i < j /\ posted[t][j] = FallbackMessage) => posted[t][i] = FallbackMessage

\* ---------------------------------------------------------------------
\* Properties of how processMessage ends for the listener (specification Spec)

\* processMessage of turn t was entered and has rejected: the listener is in
\* or past its catch block
Escaped(t) ==
  /\ Entered(t, "Received")
  /\ pc[t] \in {"listenerCatch", "listenerSending", "handled", "unhandled"}

\* C23 as stated: whatever fails inside the turn, the delivery of the
\* fallback message included, processMessage resolves and nothing reaches
\* the listener's catch.
\* Violated: the catch block awaits adapter.reply(fallback) unguarded, so a
\* rejected fallback reply rejects processMessage.
C23_NothingEscapes == \A t \in TurnIds : ~ Escaped(t)

\* C23, amended: processMessage rejects only when the reply call that
\* carries the fallback message is rejected; a failed composition, a failed
\* generation and a rejected chunk reply are all caught, and with a fallback
\* reply that resolves processMessage resolves.
C23_EscapesOnlyOnFallbackReject ==
  \A t \in TurnIds :
    /\ Escaped(t) =>
         /\ calls[t] # <<>>
         /\ Last(calls[t]).kind = "fallback"
         /\ Last(calls[t]).status = "rejected"
         /\ Entered(t, "Failed")
    /\ (pc[t] \in Finished /\ Entered(t, "Failed")
          /\ Last(calls[t]).status = "resolved") => pc[t] = "returned"

\* a chunk reply was rejected, the fallback reply resolved, and
\* processMessage has resolved
C23_Witness ==
  \E t \in TurnIds :
    /\ pc[t] = "returned"
    /\ Entered(t, "Failed")
    /\ \E i \in ChunkCalls(t) : calls[t][i].status = "rejected"
    /\ Last(calls[t]).kind = "fallback"
    /\ Last(calls[t]).status = "resolved"

\* ---------------------------------------------------------------------
\* Progress of a turn (specification LiveSpec)

\* turn t has reached Completed or Failed
Ended(t) == \E st \in Terminal : Entered(t, st)

\* turn t is in the pipeline and has not reached Completed or Failed
NonTerminal(t) == Entered(t, "Received") /\ ~ Ended(t)

\* C24: when the backend call and every adapter call come back, a turn that
\* was received reaches Completed or Failed; and a turn that has reached
\* neither is either waiting for the backend call or for an adapter call to
\* come back, or has a step of its own to take: nothing else holds it.
C24_TurnTerminates ==
  /\ \A t \in TurnIds : Entered(t, "Received") ~> Ended(t)
  /\ [](\A t \in TurnIds :
          (NonTerminal(t) /\ pc[t] \notin {"fetching", "replying"}) =>
            ENABLED ProgramStep(t))

\* a turn has gone through all its steps, with several reply calls, to
\* Completed
C24_Witness ==
  \E t \in TurnIds :
    /\ Entered(t, "Completed")
    /\ fetchCalls[t] = 1
    /\ Len(calls[t]) >= 2

\* ---------------------------------------------------------------------
\* Properties of the message listener (specification EchoSpec)

\* C25: a message whose author is a bot account, the bot's own reply chunks
\* and fallback messages included, starts no turn, and a message of a human
\* starts a turn only when it mentions the bot; so no message that the
\* pipeline posts starts a turn.
C25_NoSelfTrigger ==
  \A t \in TurnIds :
    /\ event[t].bot => (pc[t] = "ignored" /\ visited[t] = <<>> /\ calls[t] = <<>>)
    /\ (source[t] = "message" /\ Entered(t, "Received")) =>
         (~ event[t].bot /\ event[t].mentions)
    /\ event[t].own => event[t].bot

\* the listener got the event of a message that another turn posted, with a
\* mention of the bot in it, and started nothing
C25_Witness ==
  \E t, u \in TurnIds :
    /\ t # u
    /\ event[t].own
    /\ event[t].mentions
    /\ posted[u] # <<>>
    /\ pc[t] = "ignored"

====
